---------------------------- MODULE Spec2Model ----------------------------
(***************************************************************************)
(* Trajectory-to-volume pipeline of UplanGeneratorComplete:                *)
(* reduceWaypoints (stride reduction) and generateVolumes (per-segment     *)
(* classification, buffer sizing, altitude band and time window), and the  *)
(* pipeline generateCompleteUplan as driven by the batch loop of main.     *)
(*                                                                         *)
(* Encoding of the C++ doubles (all finite):                               *)
(*   - lengths (lat, lon, h, TSE_H, TSE_V, distances) are whole metres;    *)
(*     lat/lon are local northing/easting in metres and the inputs are     *)
(*     even, so that every "/ 2.0" of the code is exact;                   *)
(*   - times (wp.time, start_timestamp, tbuf) are in 1/TimeDen seconds;    *)
(*   - Alpha_H, Alpha_V are in 1/AlphaDen.                                 *)
(***************************************************************************)
EXTENDS Integers, Sequences, FiniteSets, TLC

VARIABLES config, start_timestamp, waypoints, compression_factor, reduced,
          wp_reduced, volumes, pc, chained,
          idx, trajectory, uplanJson, written, oi_written, invoked, raised

call_vars == <<config, start_timestamp, waypoints, compression_factor, reduced,
               wp_reduced, volumes, pc, chained>>

batch_vars == <<idx, trajectory, uplanJson, written, oi_written, invoked, raised>>

vars == <<call_vars, batch_vars>>

(* ------------------------------ bounds --------------------------------- *)
MaxLen == 4
MaxSegLen == 3
MaxStride == 3
MaxRows == 3
TimeDen == 2
AlphaDen == 2

(* --------------------------- configuration ----------------------------- *)
DefaultConfig ==
    [TSE_H |-> 15, TSE_V |-> 10, Alpha_H |-> 7 * AlphaDen,
     Alpha_V |-> 1 * AlphaDen, tbuf |-> 5 * TimeDen]

Configs ==
    { DefaultConfig,
      [DefaultConfig EXCEPT !.TSE_V = 4],
      [DefaultConfig EXCEPT !.Alpha_H = AlphaDen \div 2] }

DefaultCompression == 20

(* ------------------------------- inputs -------------------------------- *)
WaypointComplete(lat, lon, h, time) ==
    [lat |-> lat, lon |-> lon, h |-> h, time |-> time]

Times == 0..2

TrajectoryPoints == { WaypointComplete(0, 0, h, t) : h \in {0, 2}, t \in Times }

Positions == { <<0, 0>>, <<0, 2>>, <<14, 0>>, <<14, 14>>, <<14, 20>> }

SegmentPoints == { WaypointComplete(p[1], 0, p[2], t) : p \in Positions, t \in 0..1 }

SeqsUpTo(S, n) == UNION { [1..m -> S] : m \in 0..n }

Trajectories == SeqsUpTo(TrajectoryPoints, MaxLen)

SegmentSeqs == SeqsUpTo(SegmentPoints, MaxSegLen)

Strides == (-1)..MaxStride

Starts == { 0, 1000 * TimeDen }

(* Trajectories with strictly increasing times, one sample per time unit.  *)
LongTrajectory(n) == [i \in 1..n |-> WaypointComplete(0, 0, 0, i - 1)]

LongLens == { DefaultCompression + 2, DefaultCompression + 3 }

BatchPoints == { WaypointComplete(0, 0, 0, t) : t \in 0..(MaxRows - 1) }

BatchRows ==
    SeqsUpTo(BatchPoints, MaxRows) \cup { LongTrajectory(n) : n \in LongLens }

(* A trajectory file as the driver finds it: whether it exists, its rows   *)
(* that parse, and the segments (0-based) on which the geodesy primitive   *)
(* raises.                                                                 *)
MissingFile == [exists |-> FALSE, rows |-> <<>>, geodesy_raises |-> {}]

RaiseChoices == { {}, {0}, {1} }

TrajectoryFiles ==
    { MissingFile } \cup
    { [exists |-> TRUE, rows |-> r, geodesy_raises |-> g] :
          r \in BatchRows, g \in RaiseChoices }

(* ------------------------------ helpers -------------------------------- *)
Abs(x) == IF x < 0 THEN -x ELSE x

Min(a, b) == IF b < a THEN b ELSE a

Max(a, b) == IF a < b THEN b ELSE a

Last(s) == s[Len(s)]

(* ---------------------------- reduceWaypoints -------------------------- *)
PassThrough_single(wps) == Len(wps) <= 1

PassThrough(wps) == Len(wps) <= 2

ClampFactor(cf) == IF cf < 1 THEN 1 ELSE cf

FirstIndex == 1

RECURSIVE StrideLoop(_, _, _, _)
StrideLoop(wps, cf, i, acc) ==
    IF i < Len(wps)
    THEN StrideLoop(wps, cf, i + cf, Append(acc, wps[i + 1]))
    ELSE acc

MustAppendLast_never(acc, wps) == FALSE

MustAppendLast_by_height(acc, wps) ==
    acc # <<>> /\ Last(acc).h # Last(wps).h

MustAppendLast(acc, wps) ==
    acc # <<>> /\ Last(acc).time # Last(wps).time

reduceWaypoints_from_origin(wps, cf) ==
    IF PassThrough(wps) THEN wps
    ELSE LET k   == ClampFactor(cf)
             acc == StrideLoop(wps, k, FirstIndex - 1, <<>>)
         IN  IF MustAppendLast(acc, wps) THEN Append(acc, Last(wps)) ELSE acc

reduceWaypoints(wps, cf) ==
    IF PassThrough(wps) THEN wps
    ELSE LET k   == ClampFactor(cf)
             acc == StrideLoop(wps, k, FirstIndex, <<>>)
         IN  IF MustAppendLast(acc, wps) THEN Append(acc, Last(wps)) ELSE acc

(* ------------------------------ geodesy -------------------------------- *)
(* Deterministic planar stand-in for Geodesic::WGS84().Inverse: lat and lon *)
(* are metres north / east of a local origin.                               *)
calculateDistance(lat1, lon1, lat2, lon2) ==
    Abs(lat2 - lat1) + Abs(lon2 - lon1)

calculateAzimuth(lat1, lon1, lat2, lon2) ==
    IF lat2 > lat1 THEN 0
    ELSE IF lat2 < lat1 THEN 180
    ELSE IF lon2 < lon1 THEN 270
    ELSE IF lon2 > lon1 THEN 90
    ELSE 0

(* ---------------------------- generateVolumes -------------------------- *)
minimum_ground_clearance == 10

min_alt(wp1, wp2) == Min(wp1.h, wp2.h)

max_alt(wp1, wp2) == Max(wp1.h, wp2.h)

mid_alt(wp1, wp2) == (min_alt(wp1, wp2) + max_alt(wp1, wp2)) \div 2

horizontal_distance(wp1, wp2) ==
    calculateDistance(wp1.lat, wp1.lon, wp2.lat, wp2.lon)

vertical_distance(wp1, wp2) == Abs(wp2.h - wp1.h)

is_horizontal_ge(wp1, wp2, cfg) ==
    horizontal_distance(wp1, wp2) * AlphaDen >= cfg.Alpha_H * vertical_distance(wp1, wp2)

is_horizontal(wp1, wp2, cfg) ==
    horizontal_distance(wp1, wp2) * AlphaDen > cfg.Alpha_H * vertical_distance(wp1, wp2)

is_vertical(wp1, wp2, cfg) ==
    vertical_distance(wp1, wp2) * AlphaDen > cfg.Alpha_V * horizontal_distance(wp1, wp2)

segment_branch_vertical_first(wp1, wp2, cfg) ==
    IF is_vertical(wp1, wp2, cfg) THEN "vertical"
    ELSE IF is_horizontal(wp1, wp2, cfg) THEN "horizontal"
    ELSE "mixed"

segment_branch(wp1, wp2, cfg) ==
    IF is_horizontal(wp1, wp2, cfg) THEN "horizontal"
    ELSE IF is_vertical(wp1, wp2, cfg) THEN "vertical"
    ELSE "mixed"

along_track(wp1, wp2, cfg) ==
    CASE segment_branch(wp1, wp2, cfg) = "horizontal" ->
             horizontal_distance(wp1, wp2) \div 2 + cfg.TSE_H
      [] segment_branch(wp1, wp2, cfg) = "vertical" -> cfg.TSE_H
      [] OTHER -> horizontal_distance(wp1, wp2) \div 2 + cfg.TSE_H

cross_track(wp1, wp2, cfg) == cfg.TSE_H

vertical_buffer(wp1, wp2, cfg) ==
    CASE segment_branch(wp1, wp2, cfg) = "horizontal" -> cfg.TSE_V
      [] segment_branch(wp1, wp2, cfg) = "vertical" ->
             vertical_distance(wp1, wp2) \div 2 + cfg.TSE_V
      [] OTHER -> vertical_distance(wp1, wp2) \div 2 + cfg.TSE_V

Geometry(wp1, wp2, cfg) ==
    [mid_lat     |-> (wp1.lat + wp2.lat) \div 2,
     mid_lon     |-> (wp1.lon + wp2.lon) \div 2,
     azimuth     |-> calculateAzimuth(wp1.lat, wp1.lon, wp2.lat, wp2.lon),
     along_track |-> along_track(wp1, wp2, cfg),
     cross_track |-> cross_track(wp1, wp2, cfg)]

minAltValue_floor_first(wp1, wp2, cfg) ==
    Max(mid_alt(wp1, wp2), minimum_ground_clearance) - vertical_buffer(wp1, wp2, cfg)

minAltValue(wp1, wp2, cfg) ==
    LET v == mid_alt(wp1, wp2) - vertical_buffer(wp1, wp2, cfg)
    IN  IF v < minimum_ground_clearance THEN minimum_ground_clearance ELSE v

maxAltValue(wp1, wp2, cfg) == mid_alt(wp1, wp2) + vertical_buffer(wp1, wp2, cfg)

static_cast_long_long_floor(x) == x \div TimeDen

static_cast_long_long(x) ==
    IF x >= 0 THEN x \div TimeDen ELSE -((-x) \div TimeDen)

timeBeginSeconds(wp1, start, cfg) ==
    static_cast_long_long((start + wp1.time) - cfg.tbuf)

timeEndSeconds(wp2, start, cfg) ==
    static_cast_long_long((start + wp2.time) + cfg.tbuf)

VolumeOrdinal_one_based(i) == i + 1

VolumeOrdinal(i) == i

Volume(wp1, wp2, i, start, cfg) ==
    [geometry    |-> Geometry(wp1, wp2, cfg),
     timeBegin   |-> timeBeginSeconds(wp1, start, cfg),
     timeEnd     |-> timeEndSeconds(wp2, start, cfg),
     minAltitude |-> minAltValue(wp1, wp2, cfg),
     maxAltitude |-> maxAltValue(wp1, wp2, cfg),
     ordinal     |-> VolumeOrdinal(i)]

(* size_t arithmetic; TLC integers are 32 bits wide, so size_t is modelled *)
(* 30 bits wide.                                                           *)
SizeMod == 2^30

vector_max_size == SizeMod \div 2 - 1

SizeMinusOne(n) == (n - 1) % SizeMod

RECURSIVE VolumeLoop(_, _, _, _, _)
VolumeLoop(wps, start, cfg, i, acc) ==
    IF i < SizeMinusOne(Len(wps))
    THEN VolumeLoop(wps, start, cfg, i + 1,
                    Append(acc, Volume(wps[i + 1], wps[i + 2], i, start, cfg)))
    ELSE acc

generateVolumes(wps, start, cfg) ==
    IF SizeMinusOne(Len(wps)) > vector_max_size
    THEN [threw |-> TRUE, volumes |-> <<>>]
    ELSE [threw |-> FALSE, volumes |-> VolumeLoop(wps, start, cfg, 0, <<>>)]

(* --------------------- geodesy primitive that may raise ----------------- *)
RECURSIVE VolumeLoopGeodesy_partial(_, _, _, _, _, _)
VolumeLoopGeodesy_partial(wps, start, cfg, raises, i, acc) ==
    IF i < SizeMinusOne(Len(wps))
    THEN IF i \in raises
         THEN [threw |-> FALSE, volumes |-> acc]
         ELSE VolumeLoopGeodesy_partial(wps, start, cfg, raises, i + 1,
                  Append(acc, Volume(wps[i + 1], wps[i + 2], i, start, cfg)))
    ELSE [threw |-> FALSE, volumes |-> acc]

(* The exception of calculateDistance leaves the loop and the function:    *)
(* the local vector is destroyed and nothing is returned.                  *)
RECURSIVE VolumeLoopGeodesy(_, _, _, _, _, _)
VolumeLoopGeodesy(wps, start, cfg, raises, i, acc) ==
    IF i < SizeMinusOne(Len(wps))
    THEN IF i \in raises
         THEN [threw |-> TRUE, volumes |-> <<>>]
         ELSE VolumeLoopGeodesy(wps, start, cfg, raises, i + 1,
                  Append(acc, Volume(wps[i + 1], wps[i + 2], i, start, cfg)))
    ELSE [threw |-> FALSE, volumes |-> acc]

generateVolumesGeodesy(wps, start, cfg, raises) ==
    IF SizeMinusOne(Len(wps)) > vector_max_size
    THEN [threw |-> TRUE, volumes |-> <<>>]
    ELSE VolumeLoopGeodesy(wps, start, cfg, raises, 0, <<>>)

(* -------------------------- generateCompleteUplan ----------------------- *)
loadWaypointsFromCSV(f) == IF f.exists THEN f.rows ELSE <<>>

NullJson == [type |-> "null"]

JsonEmpty(j) == j.type = "null"

EnoughWaypoints_one(r) == ~(Len(r) < 1)

EnoughWaypoints(r) == ~(Len(r) < 2)

generateDefaultLocation(wp) ==
    [type |-> "Point", coordinates |-> <<wp.lon, wp.lat>>,
     reference |-> "AGL", altitude |-> wp.h]

BuildUplan(wps, vols) ==
    [type             |-> "object",
     takeoffLocation  |-> generateDefaultLocation(wps[1]),
     landingLocation  |-> generateDefaultLocation(Last(wps)),
     operationVolumes |-> vols,
     state            |-> "SENT"]

(* The main program's list of trajectory files.                            *)
NumFiles == 4

(* ---------------------------- specification ---------------------------- *)
Init ==
    /\ \/ /\ waypoints \in Trajectories
          /\ compression_factor \in Strides
          /\ config = DefaultConfig
          /\ start_timestamp = 0
       \/ /\ waypoints \in SegmentSeqs
          /\ compression_factor = DefaultCompression
          /\ config \in Configs
          /\ start_timestamp \in Starts
       \/ /\ waypoints \in { LongTrajectory(n) : n \in 3..(DefaultCompression + 3) }
          /\ compression_factor \in Strides \cup { DefaultCompression }
          /\ config = DefaultConfig
          /\ start_timestamp = 0
    /\ reduced = <<>>
    /\ wp_reduced = <<>>
    /\ volumes = <<>>
    /\ pc = "start"
    /\ chained = FALSE
    /\ idx = 0
    /\ trajectory = MissingFile
    /\ uplanJson = NullJson
    /\ written = {}
    /\ oi_written = {}
    /\ invoked = FALSE
    /\ raised = {}

ReduceWaypoints ==
    /\ pc = "start"
    /\ reduced' = reduceWaypoints(waypoints, compression_factor)
    /\ pc' = "reduced"
    /\ UNCHANGED <<config, start_timestamp, waypoints, compression_factor,
                   wp_reduced, volumes, chained>>
    /\ UNCHANGED batch_vars

ReduceAgain ==
    /\ pc = "reduced"
    /\ ~chained
    /\ \E k2 \in Strides :
          /\ waypoints' = reduced
          /\ compression_factor' = k2
          /\ reduced' = reduceWaypoints(reduced, k2)
    /\ chained' = TRUE
    /\ UNCHANGED <<config, start_timestamp, wp_reduced, volumes, pc>>
    /\ UNCHANGED batch_vars

GenerateVolumes ==
    /\ pc \in {"start", "reduced"}
    /\ LET arg == IF pc = "start" THEN waypoints ELSE reduced
           r   == generateVolumes(arg, start_timestamp, config)
       IN  /\ wp_reduced' = arg
           /\ volumes' = r.volumes
           /\ pc' = IF r.threw THEN "length_error" ELSE "volumes"
    /\ UNCHANGED <<config, start_timestamp, waypoints, compression_factor,
                   reduced, chained>>
    /\ UNCHANGED batch_vars

Next == ReduceWaypoints \/ ReduceAgain \/ GenerateVolumes

Spec == Init /\ [][Next]_vars

(* ------------------------- batch driver (main) -------------------------- *)
InitBatch ==
    /\ config = DefaultConfig
    /\ start_timestamp \in Starts
    /\ waypoints = <<>>
    /\ compression_factor = DefaultCompression
    /\ reduced = <<>>
    /\ wp_reduced = <<>>
    /\ volumes = <<>>
    /\ pc = "main_loop"
    /\ chained = FALSE
    /\ idx = 1
    /\ trajectory = MissingFile
    /\ uplanJson = NullJson
    /\ written = {}
    /\ oi_written = {}
    /\ invoked = FALSE
    /\ raised = {}

MainSkipMissingFile ==
    /\ pc = "main_loop"
    /\ idx <= NumFiles
    /\ \E f \in TrajectoryFiles :
          /\ ~f.exists
          /\ trajectory' = f
    /\ idx' = idx + 1
    /\ UNCHANGED <<call_vars, uplanJson, written, oi_written, invoked, raised>>

GenerateCompleteUplan ==
    /\ pc = "main_loop"
    /\ idx <= NumFiles
    /\ \E f \in TrajectoryFiles :
          /\ f.exists
          /\ trajectory' = f
          /\ LET wps == loadWaypointsFromCSV(f)
                 red == reduceWaypoints(wps, DefaultCompression)
                 r   == generateVolumesGeodesy(red, start_timestamp, config,
                                               f.geodesy_raises)
             IN  /\ waypoints' = wps
                 /\ IF wps = <<>>
                    THEN /\ reduced' = <<>>
                         /\ invoked' = FALSE
                         /\ wp_reduced' = <<>>
                         /\ volumes' = <<>>
                         /\ raised' = {}
                         /\ uplanJson' = NullJson
                         /\ pc' = "returned"
                    ELSE IF ~EnoughWaypoints(red)
                    THEN /\ reduced' = red
                         /\ invoked' = FALSE
                         /\ wp_reduced' = <<>>
                         /\ volumes' = <<>>
                         /\ raised' = {}
                         /\ uplanJson' = NullJson
                         /\ pc' = "returned"
                    ELSE /\ reduced' = red
                         /\ invoked' = TRUE
                         /\ wp_reduced' = red
                         /\ raised' = { i \in f.geodesy_raises : i < Len(red) - 1 }
                         /\ volumes' = r.volumes
                         /\ uplanJson' = IF r.threw THEN NullJson
                                         ELSE BuildUplan(wps, r.volumes)
                         /\ pc' = IF r.threw THEN "terminated" ELSE "returned"
    /\ UNCHANGED <<config, start_timestamp, compression_factor, chained,
                   idx, written, oi_written>>

MainSaveUplan ==
    /\ pc = "returned"
    /\ IF JsonEmpty(uplanJson)
       THEN UNCHANGED <<written, oi_written, start_timestamp>>
       ELSE /\ written' = written \cup {idx}
            /\ \E ok \in BOOLEAN :
                  oi_written' = IF ok THEN oi_written \cup {idx} ELSE oi_written
            /\ start_timestamp' = start_timestamp + 3600 * TimeDen
    /\ idx' = idx + 1
    /\ pc' = "main_loop"
    /\ waypoints' = <<>>
    /\ reduced' = <<>>
    /\ wp_reduced' = <<>>
    /\ volumes' = <<>>
    /\ uplanJson' = NullJson
    /\ invoked' = FALSE
    /\ raised' = {}
    /\ trajectory' = MissingFile
    /\ UNCHANGED <<config, compression_factor, chained>>

MainReturn ==
    /\ pc = "main_loop"
    /\ idx > NumFiles
    /\ pc' = "done"
    /\ UNCHANGED <<config, start_timestamp, waypoints, compression_factor,
                   reduced, wp_reduced, volumes, chained, batch_vars>>

NextBatch ==
    MainSkipMissingFile \/ GenerateCompleteUplan \/ MainSaveUplan \/ MainReturn

SpecBatch == InitBatch /\ [][NextBatch]_vars

InitAll == Init \/ InitBatch

NextAll == Next \/ NextBatch

SpecAll == InitAll /\ [][NextAll]_vars

(* ======================= reduceWaypoints claims ======================== *)
ReduceReturned == pc = "reduced"

(* C4: for an input of at least 3 waypoints and a stride >= 1, the last    *)
(* element of the reduced sequence has the time of the input's last        *)
(* waypoint.                                                               *)
C4_EndpointTime ==
    (ReduceReturned /\ Len(waypoints) >= 3 /\ compression_factor >= 1)
        => /\ Len(reduced) >= 1
           /\ Last(reduced).time = Last(waypoints).time

C4_Witness ==
    /\ ReduceReturned
    /\ Len(waypoints) = 4
    /\ compression_factor = 3
    /\ waypoints[2].time # waypoints[4].time
    /\ reduced = <<waypoints[2], waypoints[4]>>

(* C5: for an input of at least 3 waypoints the last element of the        *)
(* reduced sequence is the input's final waypoint (all four fields), also  *)
(* when times are not strictly increasing.                                 *)
C5_EndpointIsLastWaypoint ==
    (ReduceReturned /\ Len(waypoints) >= 3)
        => /\ Len(reduced) >= 1
           /\ Last(reduced) = Last(waypoints)

(* C6 (as stated): with a stride of 1 or less the reduction returns its    *)
(* input unchanged.                                                        *)
C6_StrideOneIdentity ==
    (ReduceReturned /\ compression_factor <= 1) => reduced = waypoints

(* C6 (amended): with a stride of 1 or less the reduction returns the      *)
(* input unchanged only if it has at most 2 waypoints; an input of 3 or    *)
(* more waypoints loses its first waypoint and keeps all the others.       *)
C6_StrideOneDropsFirst ==
    (ReduceReturned /\ compression_factor <= 1)
        => reduced = IF Len(waypoints) <= 2 THEN waypoints ELSE Tail(waypoints)

C6_Witness ==
    /\ ReduceReturned
    /\ chained
    /\ compression_factor <= 0
    /\ Len(waypoints) >= 3
    /\ reduced = Tail(waypoints)

(* Reference definition of the reduction: the selected 0-based indices are *)
(* 1, 1+k, 1+2k, ... below the length, k being the stride clamped to 1.    *)
RefStride(k) == IF k < 1 THEN 1 ELSE k

RefSelection(w, k) ==
    [j \in 1..((Len(w) - 2) \div RefStride(k) + 1) |-> w[2 + (j - 1) * RefStride(k)]]

RefReduce(w, k) ==
    IF Len(w) <= 2 THEN w
    ELSE LET sel == RefSelection(w, k)
         IN  IF sel[Len(sel)].time # w[Len(w)].time
             THEN sel \o <<w[Len(w)]>>
             ELSE sel

(* C7: reduceWaypoints(w, k) equals its reference definition: w itself for *)
(* at most 2 waypoints, otherwise w[1], w[1+k], ... in order, followed by  *)
(* the last waypoint iff its time differs from the last selected one's.    *)
C7_MatchesReference ==
    ReduceReturned => reduced = RefReduce(waypoints, compression_factor)

C7_Witness ==
    /\ ReduceReturned
    /\ Len(waypoints) = 4
    /\ compression_factor = 2
    /\ waypoints[1] # waypoints[2]
    /\ reduced = <<waypoints[2], waypoints[4]>>

(* ======================= generateVolumes claims ======================== *)
VolumesReturned == pc = "volumes"

Segments == 1..Len(volumes)

(* C1: for N waypoints the returned list has N-1 volumes and the volume at *)
(* position i carries ordinal i.                                           *)
C1_OrdinalContiguity ==
    VolumesReturned
        => /\ Len(volumes) = Len(wp_reduced) - 1
           /\ \A i \in Segments : volumes[i].ordinal = i - 1

C1_Witness ==
    /\ VolumesReturned
    /\ wp_reduced = reduced
    /\ Len(waypoints) = 4
    /\ Len(wp_reduced) = 3
    /\ Len(volumes) = 2
    /\ volumes[1].ordinal = 0
    /\ volumes[2].ordinal = 1

(* C2: every produced volume has altitude_min <= altitude_max.             *)
C2_AltitudeBandOrdered ==
    VolumesReturned
        => \A i \in Segments : volumes[i].minAltitude <= volumes[i].maxAltitude

(* Sizing table of the specification, from the two endpoints of segment i. *)
SegHd(i) ==
    calculateDistance(wp_reduced[i].lat, wp_reduced[i].lon,
                      wp_reduced[i + 1].lat, wp_reduced[i + 1].lon)

SegVd(i) ==
    IF wp_reduced[i + 1].h >= wp_reduced[i].h
    THEN wp_reduced[i + 1].h - wp_reduced[i].h
    ELSE wp_reduced[i].h - wp_reduced[i + 1].h

SegMid(i) == (wp_reduced[i].h + wp_reduced[i + 1].h) \div 2

HorizontalTest(i) == SegHd(i) * AlphaDen > config.Alpha_H * SegVd(i)

VerticalTest(i) == SegVd(i) * AlphaDen > config.Alpha_V * SegHd(i)

TableA(i) ==
    IF HorizontalTest(i) THEN SegHd(i) \div 2 + config.TSE_H
    ELSE IF VerticalTest(i) THEN config.TSE_H
    ELSE SegHd(i) \div 2 + config.TSE_H

TableV(i) ==
    IF HorizontalTest(i) THEN config.TSE_V
    ELSE IF VerticalTest(i) THEN SegVd(i) \div 2 + config.TSE_V
    ELSE SegVd(i) \div 2 + config.TSE_V

(* C3: altitude_max = mid + V and altitude_min = max(mid - V, 10), the     *)
(* floor being applied to the result of the subtraction; hence             *)
(* altitude_min >= 10 for every volume.                                    *)
C3_AltitudeBand ==
    VolumesReturned
        => \A i \in Segments :
              /\ volumes[i].maxAltitude = SegMid(i) + TableV(i)
              /\ volumes[i].minAltitude =
                     (IF SegMid(i) - TableV(i) >= 10 THEN SegMid(i) - TableV(i) ELSE 10)
              /\ volumes[i].minAltitude >= 10

C3_Witness ==
    /\ VolumesReturned
    /\ \E i \in Segments :
          SegMid(i) - TableV(i) > 10 /\ volumes[i].minAltitude = SegMid(i) - TableV(i)
    /\ \E j \in Segments :
          SegMid(j) - TableV(j) < 10 /\ SegMid(j) >= 10 /\ volumes[j].minAltitude = 10

TieH(i) == SegHd(i) * AlphaDen = config.Alpha_H * SegVd(i)

TieV(i) == SegVd(i) * AlphaDen = config.Alpha_V * SegHd(i)

MixedSized(i) ==
    /\ volumes[i].geometry.along_track = SegHd(i) \div 2 + config.TSE_H
    /\ volumes[i].geometry.cross_track = config.TSE_H
    /\ volumes[i].maxAltitude = SegMid(i) + (SegVd(i) \div 2 + config.TSE_V)

(* C8 (as stated): a segment that is an exact tie in either classification *)
(* inequality is sized by the mixed branch, for every Alpha_H and Alpha_V. *)
C8_TiesAreMixed ==
    VolumesReturned
        => \A i \in Segments : (TieH(i) \/ TieV(i)) => MixedSized(i)

(* C8 (amended): when Alpha_H * Alpha_V >= 1, a segment that is an exact   *)
(* tie in either classification inequality is sized by the mixed branch.   *)
C8_TiesAreMixedWhenProductAtLeastOne ==
    (VolumesReturned /\ config.Alpha_H * config.Alpha_V >= AlphaDen * AlphaDen)
        => \A i \in Segments : (TieH(i) \/ TieV(i)) => MixedSized(i)

C8_Witness ==
    /\ VolumesReturned
    /\ config.Alpha_H * config.Alpha_V >= AlphaDen * AlphaDen
    /\ \E i \in Segments :
          /\ TieH(i) /\ SegVd(i) > 0 /\ MixedSized(i)
          /\ volumes[i].maxAltitude - SegMid(i) # config.TSE_V

(* C9: the buffer sizes (A, C, V) follow the classification table, the     *)
(* horizontal test taking precedence when both inequalities hold.          *)
C9_SizingTable ==
    VolumesReturned
        => \A i \in Segments :
              /\ volumes[i].geometry.along_track = TableA(i)
              /\ volumes[i].geometry.cross_track = config.TSE_H
              /\ volumes[i].maxAltitude - SegMid(i) = TableV(i)

C9_Witness ==
    /\ VolumesReturned
    /\ \E i \in Segments :
          /\ HorizontalTest(i) /\ VerticalTest(i)
          /\ volumes[i].geometry.along_track = SegHd(i) \div 2 + config.TSE_H
          /\ volumes[i].geometry.along_track # config.TSE_H
          /\ volumes[i].maxAltitude - SegMid(i) = config.TSE_V
    /\ \E j \in Segments :
          /\ ~HorizontalTest(j) /\ VerticalTest(j)
          /\ volumes[j].geometry.along_track = config.TSE_H
          /\ volumes[j].maxAltitude - SegMid(j) = SegVd(j) \div 2 + config.TSE_V

(* q is x (in 1/TimeDen seconds) truncated toward zero to whole seconds.   *)
IsTruncation(q, x) ==
    IF x >= 0
    THEN q * TimeDen <= x /\ x < (q + 1) * TimeDen
    ELSE (q - 1) * TimeDen < x /\ x <= q * TimeDen

(* C10: for the segment at any position, time_begin is                     *)
(* trunc(start_timestamp + wp1.time - time_buffer) and time_end is         *)
(* trunc(start_timestamp + wp2.time + time_buffer), in whole seconds.      *)
C10_TimeWindow ==
    VolumesReturned
        => \A i \in Segments :
              /\ IsTruncation(volumes[i].timeBegin,
                              start_timestamp + wp_reduced[i].time - config.tbuf)
              /\ IsTruncation(volumes[i].timeEnd,
                              start_timestamp + wp_reduced[i + 1].time + config.tbuf)

C10_Witness ==
    /\ VolumesReturned
    /\ Len(volumes) = 2
    /\ start_timestamp + wp_reduced[2].time - config.tbuf < 0
    /\ (config.tbuf - start_timestamp - wp_reduced[2].time) % TimeDen # 0
    /\ (start_timestamp + wp_reduced[3].time + config.tbuf) % TimeDen # 0
    /\ volumes[2].timeBegin * TimeDen > start_timestamp + wp_reduced[2].time - config.tbuf
    /\ volumes[2].timeEnd * TimeDen < start_timestamp + wp_reduced[3].time + config.tbuf


(* ========================= pipeline and batch claims =================== *)
(* C11: if the geodesy primitive raises on a segment of a trajectory, no   *)
(* volume list and no plan document is returned for it (not even the       *)
(* volumes of the earlier segments), and nothing is written for it.        *)
C11_NoPartialResult ==
    /\ [](raised # {} => (JsonEmpty(uplanJson) /\ volumes = <<>>))
    /\ [][raised # {} => (written' = written /\ oi_written' = oi_written)]_vars

C11_Witness ==
    /\ raised = {1}
    /\ Len(wp_reduced) = 3
    /\ invoked
    /\ JsonEmpty(uplanJson)
    /\ volumes = <<>>
    /\ idx \notin written

(* C12: a trajectory whose plan generation fails (missing file, no or      *)
(* insufficient waypoints, geodesy failure) is abandoned and the driver    *)
(* goes on with the next trajectory: it never stops while trajectories     *)
(* remain in the list.                                                     *)
C12_DriverContinues == ~(pc = "terminated" /\ idx < NumFiles)

(* Number of waypoints left after the reduction of the current file's rows *)
UsableCount == Len(RefReduce(trajectory.rows, DefaultCompression))

(* C13: if fewer than 2 waypoints remain after reduction, the pipeline     *)
(* returns an empty result and nothing is written for the trajectory; and  *)
(* generateVolumes is never invoked with fewer than 2 waypoints.           *)
C13_InsufficientDataAborts ==
    /\ [](invoked => Len(wp_reduced) >= 2)
    /\ []((pc = "returned" /\ UsableCount < 2)
              => (JsonEmpty(uplanJson) /\ ~invoked /\ volumes = <<>>))
    /\ [][(pc = "returned" /\ UsableCount < 2)
              => (written' = written /\ oi_written' = oi_written)]_vars

C13_Witness ==
    /\ pc = "returned"
    /\ trajectory.exists
    /\ Len(trajectory.rows) = 3
    /\ UsableCount = 1
    /\ JsonEmpty(uplanJson)
    /\ ~invoked

StrictlyIncreasing(w) ==
    \A i \in 1..(Len(w) - 1) : w[i].time < w[i + 1].time

(* C14: for a trajectory of at least 3 waypoints with strictly increasing  *)
(* times, the reduction leaves at least 2 waypoints for any stride, the    *)
(* pipeline (stride 20) never aborts for insufficient data, and a plan it  *)
(* returns has at least one operation volume.                              *)
C14_EnoughWaypointsWhenIncreasing ==
    /\ (pc = "reduced" /\ Len(waypoints) >= 3 /\ StrictlyIncreasing(waypoints))
           => Len(reduced) >= 2
    /\ (pc \in {"returned", "terminated"} /\ Len(trajectory.rows) >= 3
            /\ StrictlyIncreasing(trajectory.rows))
           => /\ invoked
              /\ Len(wp_reduced) >= 2
              /\ (pc = "returned") =>
                     (~JsonEmpty(uplanJson) /\ Len(uplanJson.operationVolumes) >= 1)
              /\ (pc = "terminated") => raised # {}

C14_Witness ==
    /\ pc = "returned"
    /\ Len(trajectory.rows) = DefaultCompression + 3
    /\ StrictlyIncreasing(trajectory.rows)
    /\ ~JsonEmpty(uplanJson)
    /\ Len(uplanJson.operationVolumes) = 2

=============================================================================
